---- MODULE Spec2Model ----
(***************************************************************************)
(* Model of AudioProfiling/Assets/Tools/parse_audioprofiler.py: the        *)
(* statistics engine (calculate_stats), the threshold validator            *)
(* (safe_get, check_threshold, validate_metrics) and the pipeline of main. *)
(*                                                                         *)
(* Numbers.  Every measured value and every limit is an integer count of   *)
(* tenths (16.6 ms is 166, 20.0 % is 200, 32 voices is 320).  A statistic  *)
(* is an exact reduced fraction [num, den], so that a mean or a median of  *)
(* integers is represented without rounding.                               *)
(*                                                                         *)
(* JSON values.  A parsed JSON object is Dict(f) with f a function from    *)
(* its keys to values; a JSON number is Num(n).                            *)
(***************************************************************************)
EXTENDS Integers, Sequences, FiniteSets, TLC

VARIABLES
    pc,              \* position of the run in main (or in a harness)
    metricsFile,     \* the metrics document on disk: [state, doc]
    thresholdsFile,  \* audio_thresholds.json on disk: [state, doc]
    metrics,         \* main: metrics (the parsed metrics document)
    samples,         \* main: samples
    thresholds,      \* main: thresholds (a JSON value)
    series,          \* main: dsp_cpu, stream_cpu, ... keyed by stats name
    stats,           \* main: stats
    result,          \* main: result (a ValidationResult)
    limits,          \* validate_metrics: the limit each check compared with
    report,          \* main: report
    console,         \* what print_report has printed
    reportFile,      \* report.json on disk
    exitCode,        \* the process exit status, -1 while running
    values,          \* calculate_stats harness: the argument
    summary,         \* calculate_stats harness: the returned dict
    statsB,          \* second run of validate_metrics: stats
    thresholdsB,     \* second run of validate_metrics: thresholds
    resultB          \* second run of validate_metrics: result

vars == <<pc, metricsFile, thresholdsFile, metrics, samples, thresholds,
          series, stats, result, limits, report, console, reportFile,
          exitCode, values, summary, statsB, thresholdsB, resultB>>

fileVars == <<metricsFile, thresholdsFile>>

\* the variables of main other than pc, stats, thresholds, result and limits
pipelineVars == <<metrics, samples, series, report, console, reportFile,
                  exitCode>>

statsHarnessVars == <<values, summary>>

secondRunVars == <<statsB, thresholdsB, resultB>>

-----------------------------------------------------------------------------
(* Bounds of the model *)

MaxLen == 4          \* every series over StatValues up to this length
MaxLongLen == 101    \* patterned series up to this length
MaxSamples == 2      \* samples in a metrics document
MaxAbsent == 1       \* paths removed from a threshold document

-----------------------------------------------------------------------------
(* Exact fractions *)

RECURSIVE GCD(_, _)
GCD(a, b) == IF b = 0 THEN a ELSE GCD(b, a % b)

Rat(n, d) ==
    LET g == GCD(d, n) IN [num |-> n \div g, den |-> d \div g]

Whole(n) == [num |-> n, den |-> 1]

Zero == Whole(0)

RatLeq(a, b) == a.num * b.den <= b.num * a.den

RatGt(a, b) == a.num * b.den > b.num * a.den

-----------------------------------------------------------------------------
(* JSON values and Python dict access *)

Dict(f) == [kind |-> "dict", items |-> f]

Num(n) == [kind |-> "num", val |-> n]

EmptyItems == [k \in {} |-> Num(0)]

IsDict(v) == v.kind = "dict"

Keys(d) == DOMAIN d.items

\* d.get(key, default) on a dict d
DictGet(d, key, default) ==
    IF key \in Keys(d) THEN d.items[key] ELSE default

-----------------------------------------------------------------------------
(* Statistics engine *)

\* sum(s[lo..hi]), halving the range
RECURSIVE SumRange(_, _, _)
SumRange(s, lo, hi) ==
    IF lo > hi THEN 0
    ELSE IF lo = hi THEN s[lo]
    ELSE LET mid == (lo + hi) \div 2
         IN  SumRange(s, lo, mid) + SumRange(s, mid + 1, hi)

SumSeq(s) == SumRange(s, 1, Len(s))

\* sorted(): ascending order, by three-way partition around the middle element
RECURSIVE sorted(_)
sorted(s) ==
    IF Len(s) <= 1 THEN s
    ELSE LET p == s[(Len(s) + 1) \div 2]
         IN  sorted(SelectSeq(s, LAMBDA v : v < p))
                 \o SelectSeq(s, LAMBDA v : v = p)
                 \o sorted(SelectSeq(s, LAMBDA v : v > p))

Elements(s) == {s[i] : i \in DOMAIN s}

\* min() and max() of a non-empty list
MinOf(s) == CHOOSE v \in Elements(s) : \A w \in Elements(s) : v <= w

MaxOf(s) == CHOOSE v \in Elements(s) : \A w \in Elements(s) : v >= w

\* a mean that leaves out the division by the count
mean_undivided(s) == Whole(SumSeq(s))

\* statistics.mean
mean(s) == Rat(SumSeq(s), Len(s))

\* statistics.median: the middle element, or the mean of the two middle ones
median(s) ==
    LET data == sorted(s)
        n == Len(s)
        i == n \div 2
    IN  IF n % 2 = 1 THEN Whole(data[i + 1])
        ELSE Rat(data[i] + data[i + 1], 2)

\* an index rounded up instead of truncated
PercentileIndexUp(n, pct) == (n * pct + 99) \div 100

\* int(len(sorted_values) * 0.95) and int(len(sorted_values) * 0.99); for
\* every length up to 200000 the double product truncates to this integer
PercentileIndex(n, pct) == (n * pct) \div 100

\* seq[i] with a zero-based index i >= 0 raises IndexError outside 0..len-1
IndexInRange(s, i) == i \in 0..(Len(s) - 1)

calculate_stats_raises(vals) ==
    /\ vals # <<>>
    /\ \/ ~IndexInRange(vals, PercentileIndex(Len(vals), 95))
       \/ ~IndexInRange(vals, PercentileIndex(Len(vals), 99))

calculate_stats(vals) ==
    IF vals = <<>>
    THEN [min |-> Zero, max |-> Zero, avg |-> Zero, p95 |-> Zero, p99 |-> Zero]
    ELSE LET sorted_values == sorted(vals)
             n == Len(sorted_values)
         IN  [min    |-> Whole(MinOf(vals)),
              max    |-> Whole(MaxOf(vals)),
              avg    |-> mean(vals),
              median |-> median(vals),
              p95    |-> Whole(sorted_values[PercentileIndex(n, 95) + 1]),
              p99    |-> Whole(sorted_values[PercentileIndex(n, 99) + 1])]

NoSummary == [none |-> TRUE]

-----------------------------------------------------------------------------
(* Default thresholds, in tenths *)

DEFAULT_THRESHOLDS ==
    Dict([fmod |-> Dict([
              cpu |-> Dict([
                  dsp    |-> Dict([max |-> Num(200), avg |-> Num(100)]),
                  stream |-> Dict([max |-> Num(50),  avg |-> Num(20)]),
                  update |-> Dict([max |-> Num(20),  avg |-> Num(10)]),
                  total  |-> Dict([max |-> Num(250), avg |-> Num(150)])]),
              voices |-> Dict([max |-> Num(640), avg |-> Num(320)])]),
          unity |-> Dict([
              frame_ms |-> Dict([max |-> Num(330), avg |-> Num(166)])])])

-----------------------------------------------------------------------------
(* Helpers *)

\* the value of a call that raised instead of returning
Raise == [kind |-> "raise"]

\* v.get(key, default) as a method call: AttributeError when v has no get
MethodGet(v, key, default) ==
    IF IsDict(v) THEN DictGet(v, key, default) ELSE Raise

\* a safe_get that falls back to its own default of 0, not the caller's
RECURSIVE safe_get_zero(_, _, _)
safe_get_zero(data, keys, default) ==
    IF keys = <<>> THEN data
    ELSE IF IsDict(data)
         THEN safe_get_zero(DictGet(data, Head(keys), Num(0)), Tail(keys),
                            default)
         ELSE Num(0)

RECURSIVE safe_get(_, _, _)
safe_get(data, keys, default) ==
    IF keys = <<>> THEN data
    ELSE IF IsDict(data)
         THEN safe_get(DictGet(data, Head(keys), default), Tail(keys), default)
         ELSE default

-----------------------------------------------------------------------------
(* Validation *)

ValidationResult == [errors |-> <<>>, warnings |-> <<>>, info |-> <<>>]

add_error(res, msg) == [res EXCEPT !.errors = Append(@, msg)]

\* a soft exceedance recorded as an error
add_warning_as_error(res, msg) == [res EXCEPT !.errors = Append(@, msg)]

add_warning(res, msg) == [res EXCEPT !.warnings = Append(@, msg)]

add_info(res, msg) == [res EXCEPT !.info = Append(@, msg)]

\* a verdict that counts warnings as failures
has_failures_with_warnings(res) == Len(res.errors) + Len(res.warnings) > 0

has_failures(res) == Len(res.errors) > 0

\* the arguments of a finding's format string
Message(name, stat_type, value, threshold) ==
    [name |-> name, stat |-> stat_type, value |-> value, threshold |-> threshold]

check_threshold(name, value, threshold, stat_type, res) ==
    IF RatGt(value, Whole(threshold))
    THEN add_error(res, Message(name, stat_type, value, threshold))
    ELSE add_info(res, Message(name, stat_type, value, threshold))

EmptyDict == Dict(EmptyItems)

fmod_thresholds(th) ==
    MethodGet(MethodGet(th, "fmod", EmptyDict), "cpu", EmptyDict)

voices_thresholds(th) ==
    MethodGet(MethodGet(th, "fmod", EmptyDict), "voices", EmptyDict)

frame_thresholds(th) ==
    MethodGet(MethodGet(th, "unity", EmptyDict), "frame_ms", EmptyDict)

Checks ==
    {"dsp.max", "dsp.avg", "stream.avg", "total.max",
     "voices.avg", "voices.max", "frame_ms.avg", "frame_ms.max"}

\* the threshold expression of each comparison in validate_metrics
ThresholdNode(th, check) ==
    CASE check = "dsp.max" ->
             safe_get(fmod_thresholds(th), <<"dsp", "max">>, Num(200))
      [] check = "dsp.avg" ->
             safe_get(fmod_thresholds(th), <<"dsp", "avg">>, Num(100))
      [] check = "stream.avg" ->
             safe_get(fmod_thresholds(th), <<"stream", "avg">>, Num(20))
      [] check = "total.max" ->
             safe_get(fmod_thresholds(th), <<"total", "max">>, Num(250))
      [] check = "voices.avg" ->
             MethodGet(voices_thresholds(th), "avg", Num(320))
      [] check = "voices.max" ->
             MethodGet(voices_thresholds(th), "max", Num(640))
      [] check = "frame_ms.avg" ->
             MethodGet(frame_thresholds(th), "avg", Num(166))
      [] check = "frame_ms.max" ->
             MethodGet(frame_thresholds(th), "max", Num(330))

\* a lookup that reads the 99th percentile where the maximum is meant
stat_value_p99(st, name, kind) ==
    IF kind = "max" THEN st[name]["p99"] ELSE st[name][kind]

\* stats[name][kind]
stat_value(st, name, kind) == st[name][kind]

\* validate_metrics raises when a .get is called on a non-dict or a
\* comparison meets a threshold that is no number
validate_metrics_raises(th) ==
    \E c \in Checks : ThresholdNode(th, c).kind # "num"

validate_limits(th) == [c \in Checks |-> ThresholdNode(th, c).val]

validate_metrics(st, th) ==
    LET lim == validate_limits(th)
        r0 == ValidationResult
        r1 == check_threshold("FMOD DSP CPU", stat_value(st, "fmod_cpu_dsp", "max"),
                              lim["dsp.max"], "max", r0)
        r2 == check_threshold("FMOD DSP CPU", stat_value(st, "fmod_cpu_dsp", "avg"),
                              lim["dsp.avg"], "avg", r1)
        r3 == check_threshold("FMOD Stream CPU", stat_value(st, "fmod_cpu_stream", "avg"),
                              lim["stream.avg"], "avg", r2)
        r4 == check_threshold("FMOD Total CPU", stat_value(st, "fmod_cpu_total", "max"),
                              lim["total.max"], "max", r3)
        r5 == IF RatGt(stat_value(st, "voices", "avg"), Whole(lim["voices.avg"]))
              THEN add_warning(r4, Message("Voices", "avg", stat_value(st, "voices", "avg"),
                                           lim["voices.avg"]))
              ELSE r4
        r6 == IF RatGt(stat_value(st, "voices", "max"), Whole(lim["voices.max"]))
              THEN add_error(r5, Message("Voices", "max", stat_value(st, "voices", "max"),
                                         lim["voices.max"]))
              ELSE r5
        r7 == IF RatGt(stat_value(st, "unity_frame_ms", "avg"), Whole(lim["frame_ms.avg"]))
              THEN add_warning(r6, Message("Frame", "avg",
                                           stat_value(st, "unity_frame_ms", "avg"),
                                           lim["frame_ms.avg"]))
              ELSE r6
        r8 == IF RatGt(stat_value(st, "unity_frame_ms", "max"), Whole(lim["frame_ms.max"]))
              THEN add_error(r7, Message("Frame", "max",
                                         stat_value(st, "unity_frame_ms", "max"),
                                         lim["frame_ms.max"]))
              ELSE r7
    IN  r8

-----------------------------------------------------------------------------
(* Report generation *)

generate_report(st, res) ==
    [statistics |-> st,
     validation |-> [passed   |-> ~has_failures(res),
                     errors   |-> res.errors,
                     warnings |-> res.warnings]]

-----------------------------------------------------------------------------
(* Values of the variables a specification does not use *)

NoFile == [state |-> "unused"]

NoStats == [none |-> TRUE]

NoResult == [none |-> TRUE]

NoReport == [none |-> TRUE]

NoLimits == [none |-> TRUE]

NoThresholds == [kind |-> "unset"]

PipelineIdle ==
    /\ metricsFile = NoFile
    /\ thresholdsFile = NoFile
    /\ metrics = NoThresholds
    /\ samples = <<>>
    /\ series = NoStats
    /\ report = NoReport
    /\ console = <<>>
    /\ reportFile = NoReport
    /\ exitCode = -1

StatsHarnessIdle ==
    /\ values = <<>>
    /\ summary = NoSummary

SecondRunIdle ==
    /\ statsB = NoStats
    /\ thresholdsB = NoThresholds
    /\ resultB = NoResult

-----------------------------------------------------------------------------
(* calculate_stats on its own: the argument is drawn from StatInputs *)

StatValues == {0, 5, 20}

ShortSeries == UNION {[1..n -> StatValues] : n \in 0..MaxLen}

Pattern(n, stride, modulus) == [i \in 1..n |-> (i * stride) % modulus]

LongSeries ==
    {Pattern(n, stride, modulus) :
        n \in (MaxLen + 1)..MaxLongLen, stride \in {1, 37}, modulus \in {3, 101}}

StatInputs == ShortSeries \cup LongSeries

InitStats ==
    /\ pc = "stats_call"
    /\ values \in StatInputs
    /\ summary = NoSummary
    /\ PipelineIdle
    /\ SecondRunIdle
    /\ stats = NoStats
    /\ thresholds = NoThresholds
    /\ result = NoResult
    /\ limits = NoLimits

CalculateStatsCall ==
    /\ pc = "stats_call"
    /\ IF calculate_stats_raises(values)
       THEN /\ pc' = "stats_raised"
            /\ summary' = NoSummary
       ELSE /\ pc' = "stats_returned"
            /\ summary' = calculate_stats(values)
    /\ UNCHANGED <<fileVars, pipelineVars, secondRunVars, stats, thresholds,
                   result, limits, values>>

NextStats == CalculateStatsCall

SpecStats == InitStats /\ [][NextStats]_vars

-----------------------------------------------------------------------------
(* Threshold documents: a full document with paths removed *)

\* a full document whose every limit is one tenth above the built-in one
OverridePolicy ==
    Dict([fmod |-> Dict([
              cpu |-> Dict([
                  dsp    |-> Dict([max |-> Num(201), avg |-> Num(101)]),
                  stream |-> Dict([max |-> Num(51),  avg |-> Num(21)]),
                  update |-> Dict([max |-> Num(21),  avg |-> Num(11)]),
                  total  |-> Dict([max |-> Num(251), avg |-> Num(151)])]),
              voices |-> Dict([max |-> Num(641), avg |-> Num(321)])]),
          unity |-> Dict([
              frame_ms |-> Dict([max |-> Num(331), avg |-> Num(167)])])])

BasePolicies == {DEFAULT_THRESHOLDS, OverridePolicy}

StatKinds == {"max", "avg"}

CpuMetrics == {"dsp", "stream", "update", "total"}

AllPaths ==
    {<<"fmod">>, <<"fmod", "cpu">>, <<"fmod", "voices">>,
     <<"unity">>, <<"unity", "frame_ms">>}
    \cup {<<"fmod", "cpu", m>> : m \in CpuMetrics}
    \cup {<<"fmod", "cpu", m, k>> : m \in CpuMetrics, k \in StatKinds}
    \cup {<<"fmod", "voices", k>> : k \in StatKinds}
    \cup {<<"unity", "frame_ms", k>> : k \in StatKinds}

RECURSIVE RemovePath(_, _)
RemovePath(node, path) ==
    IF ~IsDict(node) \/ Head(path) \notin Keys(node) THEN node
    ELSE IF Len(path) = 1
         THEN Dict([k \in Keys(node) \ {Head(path)} |-> node.items[k]])
         ELSE Dict([k \in Keys(node) |->
                      IF k = Head(path)
                      THEN RemovePath(node.items[k], Tail(path))
                      ELSE node.items[k]])

RECURSIVE RemoveAll(_, _)
RemoveAll(node, paths) ==
    IF paths = {} THEN node
    ELSE LET p == CHOOSE q \in paths : TRUE
         IN  RemoveAll(RemovePath(node, p), paths \ {p})

RECURSIVE SetPath(_, _, _)
SetPath(node, path, v) ==
    LET base == IF IsDict(node) THEN node ELSE EmptyDict
        k == Head(path)
        child == IF Len(path) = 1 THEN v
                 ELSE SetPath(DictGet(base, k, EmptyDict), Tail(path), v)
    IN  Dict([x \in Keys(base) \cup {k} |->
                IF x = k THEN child ELSE base.items[x]])

Policies ==
    {RemoveAll(base, absent) :
        base \in BasePolicies,
        absent \in {A \in SUBSET AllPaths : Cardinality(A) <= MaxAbsent}}

-----------------------------------------------------------------------------
(* validate_metrics on its own, run on a pair of inputs *)

HardChecks ==
    {"dsp.max", "dsp.avg", "stream.avg", "total.max", "voices.max",
     "frame_ms.max"}

SoftChecks == {"voices.avg", "frame_ms.avg"}

\* the hardcoded default of each check, in tenths
HardcodedDefault(c) ==
    CASE c = "dsp.max" -> 200
      [] c = "dsp.avg" -> 100
      [] c = "stream.avg" -> 20
      [] c = "total.max" -> 250
      [] c = "voices.avg" -> 320
      [] c = "voices.max" -> 640
      [] c = "frame_ms.avg" -> 166
      [] c = "frame_ms.max" -> 330

\* a value at the hardcoded default, or one tenth above it
LevelValue(c, exceed) ==
    Whole(HardcodedDefault(c) + (IF c \in exceed THEN 1 ELSE 0))

SeriesStats(mx, av, filler) ==
    [min |-> filler, max |-> mx, avg |-> av, median |-> filler,
     p95 |-> filler, p99 |-> filler]

StatsMap(exceed, filler) ==
    [fmod_cpu_dsp    |-> SeriesStats(LevelValue("dsp.max", exceed),
                                     LevelValue("dsp.avg", exceed), filler),
     fmod_cpu_stream |-> SeriesStats(filler,
                                     LevelValue("stream.avg", exceed), filler),
     fmod_cpu_update |-> SeriesStats(filler, filler, filler),
     fmod_cpu_total  |-> SeriesStats(LevelValue("total.max", exceed),
                                     filler, filler),
     voices          |-> SeriesStats(LevelValue("voices.max", exceed),
                                     LevelValue("voices.avg", exceed), filler),
     unity_frame_ms  |-> SeriesStats(LevelValue("frame_ms.max", exceed),
                                     LevelValue("frame_ms.avg", exceed),
                                     filler)]

Perturbations ==
    {"same", "update_stats", "other_fields", "unused_limits",
     "dsp_max_value", "frame_max_limit"}

OtherFiller == Whole(9990)

PerturbedStats(exceed, p) ==
    CASE p = "update_stats" ->
             [StatsMap(exceed, Zero) EXCEPT
                 !.fmod_cpu_update = SeriesStats(OtherFiller, OtherFiller,
                                                 OtherFiller)]
      [] p = "other_fields" ->
             [StatsMap(exceed, OtherFiller) EXCEPT
                 !.fmod_cpu_update = SeriesStats(Zero, Zero, Zero)]
      [] p = "dsp_max_value" ->
             [StatsMap(exceed, Zero) EXCEPT
                 !.fmod_cpu_dsp.max = Whole(@.num + 5)]
      [] OTHER -> StatsMap(exceed, Zero)

UnusedLimitPaths ==
    {<<"fmod", "cpu", "stream", "max">>, <<"fmod", "cpu", "update", "max">>,
     <<"fmod", "cpu", "update", "avg">>, <<"fmod", "cpu", "total", "avg">>}

RECURSIVE SetAll(_, _, _)
SetAll(node, paths, v) ==
    IF paths = {} THEN node
    ELSE LET p == CHOOSE q \in paths : TRUE
         IN  SetAll(SetPath(node, p, v), paths \ {p}, v)

PerturbedPolicy(th, p) ==
    CASE p = "unused_limits" -> SetAll(th, UnusedLimitPaths, Num(0))
      [] p = "frame_max_limit" ->
             SetPath(th, <<"unity", "frame_ms", "max">>, Num(0))
      [] OTHER -> th

InitValidate ==
    /\ pc = "validate_first"
    /\ \E exceed \in SUBSET Checks, th \in Policies, p \in Perturbations :
          /\ p = "same" \/ Cardinality(exceed) <= 1 \/ exceed = Checks
          /\ stats = StatsMap(exceed, Zero)
          /\ thresholds = th
          /\ statsB = PerturbedStats(exceed, p)
          /\ thresholdsB = PerturbedPolicy(th, p)
    /\ result = NoResult
    /\ resultB = NoResult
    /\ limits = NoLimits
    /\ PipelineIdle
    /\ StatsHarnessIdle

ValidateFirst ==
    /\ pc = "validate_first"
    /\ IF validate_metrics_raises(thresholds)
       THEN /\ pc' = "validate_raised"
            /\ UNCHANGED <<result, limits>>
       ELSE /\ pc' = "validate_second"
            /\ result' = validate_metrics(stats, thresholds)
            /\ limits' = validate_limits(thresholds)
    /\ UNCHANGED <<fileVars, pipelineVars, statsHarnessVars, secondRunVars,
                   stats, thresholds>>

ValidateSecond ==
    /\ pc = "validate_second"
    /\ IF validate_metrics_raises(thresholdsB)
       THEN /\ pc' = "validate_raised"
            /\ UNCHANGED resultB
       ELSE /\ pc' = "validated"
            /\ resultB' = validate_metrics(statsB, thresholdsB)
    /\ UNCHANGED <<fileVars, pipelineVars, statsHarnessVars, stats,
                   thresholds, result, limits, statsB, thresholdsB>>

NextValidate == ValidateFirst \/ ValidateSecond

SpecValidate == InitValidate /\ [][NextValidate]_vars

-----------------------------------------------------------------------------
(* File loading *)

FileStates == {"missing", "unreadable", "malformed", "ok"}

Returned(v) == [raised |-> "none", value |-> v, printed |-> <<>>]

SystemExit(msg) == [raised |-> "SystemExit", printed |-> <<msg>>]

\* load_json: sys.exit(1) unless the file exists, opens and parses
load_json(file) ==
    CASE file.state = "missing" -> SystemExit("[ERROR] File not found")
      [] file.state = "malformed" -> SystemExit("[ERROR] Invalid JSON")
      [] file.state = "unreadable" -> SystemExit("[ERROR] Failed to read")
      [] OTHER -> Returned(file.doc)

\* load_thresholds with "except Exception:" in place of the bare "except:",
\* which lets the SystemExit of load_json through
load_thresholds_except_exception(file) ==
    IF file.state # "missing"
    THEN load_json(file)
    ELSE [Returned(DEFAULT_THRESHOLDS) EXCEPT
              !.printed = <<"[INFO] No thresholds file found, using defaults">>]

\* load_thresholds: the bare "except:" also catches the SystemExit that
\* load_json raises through sys.exit
load_thresholds(file) ==
    IF file.state # "missing"
    THEN LET r == load_json(file)
         IN  IF r.raised = "none"
             THEN [r EXCEPT !.printed = <<"[INFO] Loading thresholds">>]
             ELSE [Returned(DEFAULT_THRESHOLDS) EXCEPT
                      !.printed = <<"[INFO] Loading thresholds">> \o r.printed
                          \o <<"[WARNING] Failed to load thresholds file, using defaults">>]
    ELSE [Returned(DEFAULT_THRESHOLDS) EXCEPT
              !.printed = <<"[INFO] No thresholds file found, using defaults">>]

-----------------------------------------------------------------------------
(* main *)

StatsNames ==
    {"fmod_cpu_dsp", "fmod_cpu_stream", "fmod_cpu_update", "fmod_cpu_total",
     "voices", "unity_frame_ms"}

\* the sample field each series is collected from
FieldOf(name) ==
    CASE name = "fmod_cpu_dsp" -> "fmodCpuDsp"
      [] name = "fmod_cpu_stream" -> "fmodCpuStream"
      [] name = "fmod_cpu_update" -> "fmodCpuUpdate"
      [] name = "fmod_cpu_total" -> "totalFmodCpu"
      [] name = "voices" -> "voices"
      [] name = "unity_frame_ms" -> "unityFrameMs"

\* a collection that skips the samples lacking the field
collect_dropping(smpls, field) ==
    LET having == SelectSeq(smpls, LAMBDA sm : field \in Keys(sm))
    IN  [i \in 1..Len(having) |-> having[i].items[field]]

\* [s.get(field, 0) for s in samples]
collect(smpls, field) ==
    [i \in 1..Len(smpls) |-> DictGet(smpls[i], field, 0)]

\* a check that lets an empty sample list through
no_samples_never(smpls) == FALSE

\* "not samples"
no_samples(smpls) == smpls = <<>>

Exited(code, printed) ==
    /\ pc' = "exited"
    /\ exitCode' = code
    /\ console' = console \o printed

LoadMetrics ==
    /\ pc = "load_metrics"
    /\ LET r == load_json(metricsFile)
       IN  IF r.raised = "SystemExit"
           THEN /\ Exited(1, r.printed)
                /\ UNCHANGED metrics
           ELSE /\ pc' = "load_thresholds"
                /\ metrics' = r.value
                /\ UNCHANGED <<console, exitCode>>
    /\ UNCHANGED <<fileVars, samples, series, report, reportFile,
                   statsHarnessVars, secondRunVars, stats, thresholds, result,
                   limits>>

LoadThresholds ==
    /\ pc = "load_thresholds"
    /\ LET r == load_thresholds(thresholdsFile)
       IN  IF r.raised = "SystemExit"
           THEN /\ Exited(1, r.printed)
                /\ UNCHANGED thresholds
           ELSE /\ pc' = "extract_samples"
                /\ thresholds' = r.value
                /\ console' = console \o r.printed
                /\ UNCHANGED exitCode
    /\ UNCHANGED <<fileVars, metrics, samples, series, report, reportFile,
                   statsHarnessVars, secondRunVars, stats, result, limits>>

ExtractSamples ==
    /\ pc = "extract_samples"
    /\ samples' = DictGet(metrics, "samples", <<>>)
    /\ IF no_samples(samples')
       THEN Exited(1, <<"[ERROR] No samples found in profiler output.">>)
       ELSE /\ pc' = "collect"
            /\ UNCHANGED <<console, exitCode>>
    /\ UNCHANGED <<fileVars, metrics, series, report, reportFile,
                   statsHarnessVars, secondRunVars, stats, thresholds, result,
                   limits>>

CollectMetrics ==
    /\ pc = "collect"
    /\ series' = [name \in StatsNames |-> collect(samples, FieldOf(name))]
    /\ pc' = "calculate"
    /\ UNCHANGED <<fileVars, metrics, samples, report, console, reportFile,
                   exitCode, statsHarnessVars, secondRunVars, stats,
                   thresholds, result, limits>>

Traceback == <<"Traceback (most recent call last)">>

CalculateStatistics ==
    /\ pc = "calculate"
    /\ IF \E name \in StatsNames : calculate_stats_raises(series[name])
       THEN /\ Exited(1, Traceback)
            /\ UNCHANGED stats
       ELSE /\ stats' = [name \in StatsNames |-> calculate_stats(series[name])]
            /\ pc' = "validate"
            /\ UNCHANGED <<console, exitCode>>
    /\ UNCHANGED <<fileVars, metrics, samples, series, report, reportFile,
                   statsHarnessVars, secondRunVars, thresholds, result, limits>>

Validate ==
    /\ pc = "validate"
    /\ IF validate_metrics_raises(thresholds)
       THEN /\ Exited(1, Traceback)
            /\ UNCHANGED <<result, limits>>
       ELSE /\ result' = validate_metrics(stats, thresholds)
            /\ limits' = validate_limits(thresholds)
            /\ pc' = "print"
            /\ UNCHANGED <<console, exitCode>>
    /\ UNCHANGED <<fileVars, metrics, samples, series, report, reportFile,
                   statsHarnessVars, secondRunVars, stats, thresholds>>

PrintReport ==
    /\ pc = "print"
    /\ console' = console \o
           <<"AUDIO PERFORMANCE REPORT",
             IF has_failures(result) THEN "RESULT: FAIL" ELSE "RESULT: PASS">>
    /\ pc' = "save"
    /\ UNCHANGED <<fileVars, metrics, samples, series, report, reportFile,
                   exitCode, statsHarnessVars, secondRunVars, stats,
                   thresholds, result, limits>>

PartialFile == [partial |-> TRUE]

\* generate_report, then json.dump into report.json: the write succeeds, or
\* fails before or after the file was opened for writing
SaveReport ==
    /\ pc = "save"
    /\ report' = generate_report(stats, result)
    /\ \/ /\ reportFile' = report'
          /\ console' = Append(console, "[INFO] Detailed report saved")
       \/ /\ reportFile' \in {reportFile, PartialFile}
          /\ console' = Append(console, "[WARNING] Failed to save report.json")
    /\ pc' = "exit"
    /\ UNCHANGED <<fileVars, metrics, samples, series, exitCode,
                   statsHarnessVars, secondRunVars, stats, thresholds, result,
                   limits>>

Exit ==
    /\ pc = "exit"
    /\ Exited(IF has_failures(result) THEN 1 ELSE 0, <<>>)
    /\ UNCHANGED <<fileVars, metrics, samples, series, report, reportFile,
                   statsHarnessVars, secondRunVars, stats, thresholds, result,
                   limits>>

(* The inputs of a run *)

SampleFields ==
    {"fmodCpuDsp", "fmodCpuStream", "fmodCpuUpdate", "totalFmodCpu", "voices",
     "unityFrameMs"}

\* per field: a value within every limit, one above the avg limit only, one
\* above the max limit
FieldLevels(field) ==
    CASE field = "fmodCpuDsp" -> <<50, 150, 250>>
      [] field = "fmodCpuStream" -> <<10, 30, 60>>
      [] field = "fmodCpuUpdate" -> <<5, 15, 25>>
      [] field = "totalFmodCpu" -> <<100, 200, 300>>
      [] field = "voices" -> <<160, 400, 700>>
      [] field = "unityFrameMs" -> <<100, 200, 400>>

QuietSample == Dict([f \in SampleFields |-> FieldLevels(f)[1]])

\* the quiet sample, the samples that differ from it in one field (absent,
\* or at another level), and the sample with no field at all
SampleChoices ==
    {QuietSample, EmptyDict}
    \cup {RemovePath(QuietSample, <<f>>) : f \in SampleFields}
    \cup {Dict([QuietSample.items EXCEPT ![f] = FieldLevels(f)[lvl]]) :
             f \in SampleFields, lvl \in {2, 3}}

SampleLists == UNION {[1..n -> SampleChoices] : n \in 0..MaxSamples}

MetricsDocs == {EmptyDict} \cup {Dict([samples |-> l]) : l \in SampleLists}

MetricsFiles ==
    {[state |-> st, doc |-> EmptyDict] : st \in FileStates \ {"ok"}}
    \cup {[state |-> "ok", doc |-> d] : d \in MetricsDocs}

PipelinePolicies == BasePolicies \cup {EmptyDict}

ThresholdsFiles ==
    {[state |-> st, doc |-> EmptyDict] : st \in FileStates \ {"ok"}}
    \cup {[state |-> "ok", doc |-> d] : d \in PipelinePolicies}

\* the state of main at line 286, with a metrics path given
Init ==
    /\ pc = "load_metrics"
    /\ metricsFile \in MetricsFiles
    /\ thresholdsFile \in ThresholdsFiles
    /\ metrics = NoThresholds
    /\ thresholds = NoThresholds
    /\ samples = <<>>
    /\ series = NoStats
    /\ stats = NoStats
    /\ result = NoResult
    /\ limits = NoLimits
    /\ report = NoReport
    /\ console = <<>>
    /\ reportFile = NoReport
    /\ exitCode = -1
    /\ StatsHarnessIdle
    /\ SecondRunIdle

Next ==
    \/ LoadMetrics
    \/ LoadThresholds
    \/ ExtractSamples
    \/ CollectMetrics
    \/ CalculateStatistics
    \/ Validate
    \/ PrintReport
    \/ SaveReport
    \/ Exit

Spec == Init /\ [][Next]_vars

-----------------------------------------------------------------------------
(* Properties of calculate_stats, checked under SpecStats *)

SummaryFields == {"min", "max", "avg", "median", "p95", "p99"}

Min2(a, b) == IF a <= b THEN a ELSE b

\* the element at zero-based index k of the ascending order of s, by rank
ElementOfRank(s, k) ==
    CHOOSE v \in {s[j] : j \in DOMAIN s} :
        /\ Cardinality({j \in DOMAIN s : s[j] < v}) <= k
        /\ k < Cardinality({j \in DOMAIN s : s[j] <= v})

ClippedIndex(n, pct) == Min2((n * pct) \div 100, n - 1)

StatsCallEnded == pc \in {"stats_returned", "stats_raised"}

\* C3: calculate_stats of an empty series returns without failing a summary
\* that has all six fields min, max, avg, median, p95 and p99, each equal 0.
C3_EmptySeriesAllSixZero ==
    (StatsCallEnded /\ values = <<>>) =>
        /\ pc = "stats_returned"
        /\ DOMAIN summary = SummaryFields
        /\ \A f \in SummaryFields : summary[f] = Zero

\* C4: for a non-empty series of length n the call returns, p95 is the
\* element at zero-based index min(floor(n*0.95), n-1) of the ascending
\* order and p99 the one at min(floor(n*0.99), n-1), and the index the code
\* computes lies in 0..n-1.
C4_PercentileIndexing ==
    (StatsCallEnded /\ values # <<>>) =>
        LET n == Len(values) IN
        /\ pc = "stats_returned"
        /\ PercentileIndex(n, 95) \in 0..(n - 1)
        /\ PercentileIndex(n, 99) \in 0..(n - 1)
        /\ summary.p95 = Whole(ElementOfRank(values, ClippedIndex(n, 95)))
        /\ summary.p99 = Whole(ElementOfRank(values, ClippedIndex(n, 99)))

C4_Witness ==
    /\ pc = "stats_returned"
    /\ Len(values) > 100
    /\ summary.p95 # summary.p99
    /\ summary.p99 # summary.max

\* C5: for a non-empty series min <= avg <= max, and median, p95 and p99
\* each lie between min and max.
C5_SummaryWithinMinMax ==
    (pc = "stats_returned" /\ values # <<>>) =>
        /\ RatLeq(summary.min, summary.avg)
        /\ RatLeq(summary.avg, summary.max)
        /\ \A f \in {"median", "p95", "p99"} :
              /\ RatLeq(summary.min, summary[f])
              /\ RatLeq(summary[f], summary.max)

C5_Witness ==
    /\ pc = "stats_returned"
    /\ values # <<>>
    /\ summary.min # summary.avg
    /\ summary.avg # summary.max
    /\ summary.median # summary.avg
    /\ summary.avg.den > 1

-----------------------------------------------------------------------------
(* Properties of validate_metrics, checked under SpecValidate *)

\* the path of each check's limit in a threshold document
PathOf(c) ==
    CASE c = "dsp.max" -> <<"fmod", "cpu", "dsp", "max">>
      [] c = "dsp.avg" -> <<"fmod", "cpu", "dsp", "avg">>
      [] c = "stream.avg" -> <<"fmod", "cpu", "stream", "avg">>
      [] c = "total.max" -> <<"fmod", "cpu", "total", "max">>
      [] c = "voices.avg" -> <<"fmod", "voices", "avg">>
      [] c = "voices.max" -> <<"fmod", "voices", "max">>
      [] c = "frame_ms.avg" -> <<"unity", "frame_ms", "avg">>
      [] c = "frame_ms.max" -> <<"unity", "frame_ms", "max">>

RECURSIVE PathPresent(_, _)
PathPresent(node, path) ==
    \/ path = <<>>
    \/ /\ IsDict(node)
       /\ Head(path) \in Keys(node)
       /\ PathPresent(node.items[Head(path)], Tail(path))

RECURSIVE ValueAt(_, _)
ValueAt(node, path) ==
    IF path = <<>> THEN node ELSE ValueAt(node.items[Head(path)], Tail(path))

\* the document's value where the check's full path is present, else the
\* hardcoded default of that check
ExpectedLimit(th, c) ==
    IF PathPresent(th, PathOf(c)) THEN ValueAt(th, PathOf(c)).val
    ELSE HardcodedDefault(c)

\* the statistic each check compares
ComparedValue(st, c) ==
    CASE c = "dsp.max" -> st.fmod_cpu_dsp.max
      [] c = "dsp.avg" -> st.fmod_cpu_dsp.avg
      [] c = "stream.avg" -> st.fmod_cpu_stream.avg
      [] c = "total.max" -> st.fmod_cpu_total.max
      [] c = "voices.avg" -> st.voices.avg
      [] c = "voices.max" -> st.voices.max
      [] c = "frame_ms.avg" -> st.unity_frame_ms.avg
      [] c = "frame_ms.max" -> st.unity_frame_ms.max

Exceeded(st, th, c) == RatGt(ComparedValue(st, c), Whole(ExpectedLimit(th, c)))

\* the check a finding reports on
CheckOfFinding(m) ==
    CASE m.name = "FMOD DSP CPU" /\ m.stat = "max" -> "dsp.max"
      [] m.name = "FMOD DSP CPU" /\ m.stat = "avg" -> "dsp.avg"
      [] m.name = "FMOD Stream CPU" /\ m.stat = "avg" -> "stream.avg"
      [] m.name = "FMOD Total CPU" /\ m.stat = "max" -> "total.max"
      [] m.name = "Voices" /\ m.stat = "avg" -> "voices.avg"
      [] m.name = "Voices" /\ m.stat = "max" -> "voices.max"
      [] m.name = "Frame" /\ m.stat = "avg" -> "frame_ms.avg"
      [] m.name = "Frame" /\ m.stat = "max" -> "frame_ms.max"

ChecksIn(findings) == {CheckOfFinding(findings[i]) : i \in DOMAIN findings}

FirstRunEnded == pc \in {"validate_second", "validated", "validate_raised"}

FirstRunReturned == pc \in {"validate_second", "validated"}

\* C2: validate_metrics records an error for exactly the hard checks whose
\* value is strictly above its limit and a warning for exactly the soft
\* checks whose value is strictly above its limit, each once; voices avg
\* alone above its limit gives one warning, no error and PASS; frame max
\* above its limit gives at least one error and FAIL.
C2_SeverityPerCheck ==
    FirstRunReturned =>
        LET hard == {c \in HardChecks : Exceeded(stats, thresholds, c)}
            soft == {c \in SoftChecks : Exceeded(stats, thresholds, c)}
        IN  /\ ChecksIn(result.errors) = hard
            /\ Len(result.errors) = Cardinality(hard)
            /\ ChecksIn(result.warnings) = soft
            /\ Len(result.warnings) = Cardinality(soft)
            /\ (hard = {} /\ soft = {"voices.avg"}) =>
                   /\ Len(result.warnings) = 1
                   /\ Len(result.errors) = 0
                   /\ ~has_failures(result)
            /\ ("frame_ms.max" \in hard) =>
                   /\ Len(result.errors) >= 1
                   /\ has_failures(result)

C2_Witness ==
    /\ FirstRunReturned
    /\ Exceeded(stats, thresholds, "voices.avg")
    /\ \A c \in Checks \ {"voices.avg"} : ~Exceeded(stats, thresholds, c)
    /\ Len(result.warnings) = 1
    /\ ~has_failures(result)

\* C8: with any paths of the threshold document absent, validate_metrics
\* does not fail, and the limit each of the eight checks uses is the
\* document's value where that check's full path is present and the
\* hardcoded default of that check otherwise.
C8_AbsentPathFallsBackPerCheck ==
    FirstRunEnded =>
        /\ pc # "validate_raised"
        /\ \A c \in Checks : limits[c] = ExpectedLimit(thresholds, c)

C8_Witness ==
    /\ FirstRunReturned
    /\ ~PathPresent(thresholds, <<"fmod", "cpu", "dsp">>)
    /\ PathPresent(thresholds, PathOf("stream.avg"))
    /\ limits["dsp.max"] = 200
    /\ limits["dsp.avg"] = 100
    /\ limits["stream.avg"] = 21

\* the two runs agree on the eight compared values and on their limits
RunsAgree ==
    \A c \in Checks :
        /\ ComparedValue(stats, c) = ComparedValue(statsB, c)
        /\ ExpectedLimit(thresholds, c) = ExpectedLimit(thresholdsB, c)

\* C10: two runs of validate_metrics that agree on the eight compared
\* values and their eight limits return the same errors, warnings and info
\* and the same verdict, whatever the other statistics and thresholds are.
C10_OnlyComparedValuesMatter ==
    (pc = "validated" /\ RunsAgree) =>
        /\ result = resultB
        /\ has_failures(result) = has_failures(resultB)

C10_Witness ==
    /\ pc = "validated"
    /\ RunsAgree
    /\ stats.fmod_cpu_update # statsB.fmod_cpu_update
    /\ Len(result.errors) > 0
    /\ result = resultB

-----------------------------------------------------------------------------
(* Properties of main, checked under Spec *)

\* the run ends on a fatal input condition
FatalInput ==
    \/ metricsFile.state # "ok"
    \/ DictGet(metricsFile.doc, "samples", <<>>) = <<>>

\* C1: a run that got past the input preconditions exits with status 1
\* exactly when validate_metrics recorded an error and with 0 otherwise,
\* and the report's validation.passed is true exactly when the status is 0.
C1_ExitStatusIsVerdict ==
    (pc = "exited" /\ ~FatalInput) =>
        /\ result # NoResult
        /\ report # NoReport
        /\ exitCode = (IF Len(result.errors) >= 1 THEN 1 ELSE 0)
        /\ report.validation.passed = (exitCode = 0)

C1_Witness ==
    /\ pc = "exited"
    /\ ~FatalInput
    /\ exitCode = 0
    /\ Len(result.warnings) >= 1
    /\ report.validation.passed

\* C6: a run on a missing, unreadable or malformed metrics file, or on zero
\* samples, never computes statistics, validates, prints the report or
\* writes report.json, and it exits with status 1.
C6_FatalInputShortCircuits ==
    FatalInput =>
        /\ pc \in {"load_metrics", "load_thresholds", "extract_samples",
                   "exited"}
        /\ series = NoStats
        /\ stats = NoStats
        /\ result = NoResult
        /\ report = NoReport
        /\ reportFile = NoReport
        /\ \A i \in DOMAIN console : console[i] # "AUDIO PERFORMANCE REPORT"
        /\ pc = "exited" => exitCode = 1

C6_Witness ==
    /\ pc = "exited"
    /\ metricsFile.state = "ok"
    /\ "samples" \in Keys(metricsFile.doc)
    /\ metricsFile.doc.items.samples = <<>>
    /\ thresholdsFile.state = "ok"
    /\ exitCode = 1
    /\ stats = NoStats

\* the exit status of a run on the same metrics with no threshold file
ExitWithoutThresholdsFile ==
    LET th == load_thresholds([state |-> "missing", doc |-> EmptyDict]).value
        sr == [name \in StatsNames |-> collect(samples, FieldOf(name))]
        st == [name \in StatsNames |-> calculate_stats(sr[name])]
    IN  IF has_failures(validate_metrics(st, th)) THEN 1 ELSE 0

\* C7: with a malformed threshold file the run is not ended by
\* load_thresholds, which returns the built-in defaults; the run goes on
\* through statistics, validation and reporting and ends with the verdict
\* and exit status of a run on the same metrics with no threshold file.
C7_MalformedThresholdsFallBack ==
    (thresholdsFile.state = "malformed" /\ ~FatalInput) =>
        /\ pc \notin {"load_metrics", "load_thresholds"} =>
               thresholds = DEFAULT_THRESHOLDS
        /\ pc = "exited" =>
               /\ \E i \in DOMAIN console :
                      console[i] = "AUDIO PERFORMANCE REPORT"
               /\ report # NoReport
               /\ exitCode = ExitWithoutThresholdsFile
               /\ report.validation.passed = (ExitWithoutThresholdsFile = 0)

C7_Witness ==
    /\ pc = "exited"
    /\ thresholdsFile.state = "malformed"
    /\ thresholds = DEFAULT_THRESHOLDS
    /\ report # NoReport
    /\ exitCode = 0

\* C9: the collection step yields six series as long as the sample list,
\* element i being sample i's value at the field, or 0 when the sample
\* lacks it, and a run with samples is not ended by the collection.
C9_CollectionKeepsEverySample ==
    (~FatalInput /\ pc \notin {"load_metrics", "load_thresholds",
                                "extract_samples", "collect"}) =>
        /\ series # NoStats
        /\ DOMAIN series = StatsNames
        /\ \A name \in StatsNames :
              /\ Len(series[name]) = Len(samples)
              /\ \A i \in 1..Len(samples) :
                    series[name][i] =
                        IF FieldOf(name) \in Keys(samples[i])
                        THEN samples[i].items[FieldOf(name)]
                        ELSE 0

C9_Witness ==
    /\ pc = "calculate"
    /\ Len(samples) = 2
    /\ "voices" \notin Keys(samples[1])
    /\ "voices" \in Keys(samples[2])
    /\ series.voices = <<0, 160>>
    /\ series.fmod_cpu_dsp = <<50, 50>>

====
